---------------------------- MODULE Spec2Model ----------------------------
(***************************************************************************)
(* The puzzle engine of src/components/GameScene.tsx: the level generator  *)
(* generateLevel, the segment test doIntersect, the evaluation             *)
(* checkIntersections, the win check checkWinCondition and the pointer     *)
(* handlers of one level instance.                                         *)
(*                                                                         *)
(* Numbers.  Coordinates are fixed point: Unit steps per 1.0, so the       *)
(* circle radius 4.5 is 450 and the clamp range [-9, 9] is [-900, 900].    *)
(* Math.random() is a draw k of RandDraws standing for the value           *)
(* k / RandRes of [0, 1); every use computes with that fraction what the   *)
(* code computes (floor(r * n) is (k * n) \div RandRes).                   *)
(* A pin id `p${i}` is modelled by its index i, a rope id `r${k}` by k.    *)
(***************************************************************************)
EXTENDS Integers, Sequences, FiniteSets, TLC

(***************************************************************************)
(* Bounds of the model.                                                    *)
(***************************************************************************)
\* generateLevel is explored for the level indices -NegLevels .. MaxLevel on
\* every draw, and for the level index FarLevel, beyond the cap of pointCount,
\* on the extreme draws 0 and (RandRes-1) / RandRes.
MaxLevel == 17
NegLevels == 1
FarLevel == 110
\* Resolution of the random source: draws 0 .. RandRes-1 stand for k/RandRes.
RandRes == 3
\* The first JitterPins pins take every jitter draw; the others take draw 0.
JitterPins == 0
\* The evaluation harness places its pins on the grid (0 .. EvalMax)^2 * 10.0.
EvalMax == 2
\* The segment harness uses the coordinates (0 .. SegSmall) * SegStep and
\* EpsDen * SegStep, so that lambda and gamma can equal eps exactly.
SegSmall == 2
\* The scene is explored for the level indices 1 .. MaxPlayLevel.
MaxPlayLevel == 2
\* The extra-rope loop alone is explored for the level indices 10 * d + 1,
\* d in 0 .. MaxDecade (one per pin count 5 .. 15), for its first ChordMax
\* iterations.
MaxDecade == 10
ChordMax == 2

(***************************************************************************)
(* Program constants.                                                      *)
(***************************************************************************)
Unit == 100
COLORS == << "#FF3D71", "#3366FF", "#00D68F", "#FFAA00", "#D948FF", "#00E096",
             "#FF5722", "#00BCD4" >>
\* eps = 0.05 = EpsNum / EpsDen
EpsNum == 1
EpsDen == 20
\* Math.abs(det) < 0.001, det being a product of two coordinates
DetEps == (Unit * Unit) \div 1000

NoPin == -1

VARIABLES
  \* generateLevel: its argument, its locals and its position
  lvl, points, ropes, connections, pc, cnt,
  \* state.current of one GameScene: pins (id -> position), ropes (id -> p1, p2),
  \* the tangled colouring of the rope meshes, and the flags
  pins, sropes, tangled, selectedPointId, isComplete, initialized,
  \* the number of onComplete timers this level instance has set
  scheduled

genVars == << lvl, points, ropes, connections, pc, cnt >>
sceneVars == << pins, sropes, tangled, selectedPointId, isComplete, initialized,
               scheduled >>
vars == << lvl, points, ropes, connections, pc, cnt,
           pins, sropes, tangled, selectedPointId, isComplete, initialized,
           scheduled >>

Min(a, b) == IF a < b THEN a ELSE b
Max(a, b) == IF a < b THEN b ELSE a
Abs(a) == IF a < 0 THEN 0 - a ELSE a

(***************************************************************************)
(* generateLevel: the difficulty curve.                                    *)
(***************************************************************************)
pointCount(l) == Min(5 + (l \div 10), 15)

\* extraRopes with the subtraction of line 114 left out.
extraRopesWrong(l) == (pointCount(l) * (1200 + 8 * l)) \div 1000
\* Math.floor(pointCount * (1.2 + (lvl / 100) * 0.8)) - pointCount
extraRopes(l) == ((pointCount(l) * (1200 + 8 * l)) \div 1000) - pointCount(l)

scrambleCount(l) == 20 + l * 2

(***************************************************************************)
(* The circle: (cos, sin)(2 pi i / n) * 4.5, rounded to 1/Unit.            *)
(***************************************************************************)
CircleTable ==
   (4 :> << <<450, 0>>, <<0, 450>>, <<-450, 0>>, <<0, -450>> >>)
   @@ (5 :> << <<450, 0>>, <<139, 428>>, <<-364, 265>>, <<-364, -265>>, <<139, -428>> >>)
   @@ (6 :> << <<450, 0>>, <<225, 390>>, <<-225, 390>>, <<-450, 0>>, <<-225, -390>>, <<225, -390>> >>)
   @@ (7 :> << <<450, 0>>, <<281, 352>>, <<-100, 439>>, <<-405, 195>>, <<-405, -195>>, <<-100, -439>>, <<281, -352>> >>)
   @@ (8 :> << <<450, 0>>, <<318, 318>>, <<0, 450>>, <<-318, 318>>, <<-450, 0>>, <<-318, -318>>, <<0, -450>>, <<318, -318>> >>)
   @@ (9 :> << <<450, 0>>, <<345, 289>>, <<78, 443>>, <<-225, 390>>, <<-423, 154>>, <<-423, -154>>, <<-225, -390>>, <<78, -443>>, <<345, -289>> >>)
   @@ (10 :> << <<450, 0>>, <<364, 265>>, <<139, 428>>, <<-139, 428>>, <<-364, 265>>, <<-450, 0>>, <<-364, -265>>, <<-139, -428>>, <<139, -428>>, <<364, -265>> >>)
   @@ (11 :> << <<450, 0>>, <<379, 243>>, <<187, 409>>, <<-64, 445>>, <<-295, 340>>, <<-432, 127>>, <<-432, -127>>, <<-295, -340>>, <<-64, -445>>, <<187, -409>>, <<379, -243>> >>)
   @@ (12 :> << <<450, 0>>, <<390, 225>>, <<225, 390>>, <<0, 450>>, <<-225, 390>>, <<-390, 225>>, <<-450, 0>>, <<-390, -225>>, <<-225, -390>>, <<0, -450>>, <<225, -390>>, <<390, -225>> >>)
   @@ (13 :> << <<450, 0>>, <<398, 209>>, <<256, 370>>, <<54, 447>>, <<-160, 421>>, <<-337, 298>>, <<-437, 108>>, <<-437, -108>>, <<-337, -298>>, <<-160, -421>>, <<54, -447>>, <<256, -370>>, <<398, -209>> >>)
   @@ (14 :> << <<450, 0>>, <<405, 195>>, <<281, 352>>, <<100, 439>>, <<-100, 439>>, <<-281, 352>>, <<-405, 195>>, <<-450, 0>>, <<-405, -195>>, <<-281, -352>>, <<-100, -439>>, <<100, -439>>, <<281, -352>>, <<405, -195>> >>)
   @@ (15 :> << <<450, 0>>, <<411, 183>>, <<301, 334>>, <<139, 428>>, <<-47, 448>>, <<-225, 390>>, <<-364, 265>>, <<-440, 94>>, <<-440, -94>>, <<-364, -265>>, <<-225, -390>>, <<-47, -448>>, <<139, -428>>, <<301, -334>>, <<411, -183>> >>)

\* The position of circle slot i of n, as [x, y].
CirclePos(n, i) == [x |-> CircleTable[n][i + 1][1], y |-> CircleTable[n][i + 1][2]]

\* Step 1: the pins in the solved circle formation.
createPoints(n) ==
  [i \in 0 .. n - 1 |->
     [id |-> i, x |-> CirclePos(n, i).x, y |-> CirclePos(n, i).y, z |-> 0,
      color |-> COLORS[(i % Len(COLORS)) + 1]]]

(***************************************************************************)
(* The random source.                                                      *)
(***************************************************************************)
RandDraws == 0 .. RandRes - 1
\* The smallest and the largest draw.
ExtremeDraws == {0, RandRes - 1}
\* Math.floor(Math.random() * n)
randIndex(r, n) == (r * n) \div RandRes
\* The offset with the division of pointCount by 3 left out.
randOffsetNoThird(r, n) == 2 + ((r * n) \div RandRes)
\* 2 + Math.floor(Math.random() * (pointCount / 3))
randOffset(r, n) == 2 + ((r * n) \div (3 * RandRes))
\* (Math.random() - 0.5) * 2, in fixed point
randJitter(r) == ((2 * r - RandRes) * Unit) \div RandRes

(***************************************************************************)
(* Step 2: addRope with its dedup set.  A key is [i, j] sorted.            *)
(***************************************************************************)
ropeKey(i, j) == << Min(i, j), Max(i, j) >>

\* addRope without the connections.has(key) test of line 101.
addRopeNoDedup(rs, conn, i, j) ==
  IF i # j
    THEN << Append(rs, [id |-> Len(rs), p1 |-> i, p2 |-> j, color |-> "#ffffff"]),
            conn \cup {ropeKey(i, j)} >>
    ELSE << rs, conn >>

\* The pair << ropes, connections >> after addRope(i, j).
addRope(rs, conn, i, j) ==
  IF i # j /\ ropeKey(i, j) \notin conn
    THEN << Append(rs, [id |-> Len(rs), p1 |-> i, p2 |-> j, color |-> "#ffffff"]),
            conn \cup {ropeKey(i, j)} >>
    ELSE << rs, conn >>

\* The mandatory ring: addRope(i, (i + 1) % n) for i = 0 .. n-1, from i on.
RECURSIVE addRing(_, _, _, _)
addRing(rs, conn, i, n) ==
  IF i >= n THEN << rs, conn >>
  ELSE LET nx == addRope(rs, conn, i, (i + 1) % n)
       IN  addRing(nx[1], nx[2], i + 1, n)

(***************************************************************************)
(* Step 3: one scramble swap of the (x, y) of pins a and b.                *)
(***************************************************************************)
\* The swap without the temporaries of lines 127-128.
swapNoTemp(pts, a, b) ==
  LET p1 == [pts EXCEPT ![a].x = pts[b].x, ![a].y = pts[b].y]
  IN  [p1 EXCEPT ![b].x = p1[a].x, ![b].y = p1[a].y]

swapPoints(pts, a, b) ==
  LET tempX == pts[a].x
      tempY == pts[a].y
      p1 == [pts EXCEPT ![a].x = pts[b].x, ![a].y = pts[b].y]
  IN  [p1 EXCEPT ![b].x = tempX, ![b].y = tempY]

(***************************************************************************)
(* Step 4: the noise.  jd maps the pins that take a free draw to their     *)
(* pair of draws; every other pin takes the draw 0 twice.                  *)
(***************************************************************************)
jitterPoints(pts, jd) ==
  [i \in DOMAIN pts |->
     LET d == IF i \in DOMAIN jd THEN jd[i] ELSE << 0, 0 >>
     IN  [pts[i] EXCEPT !.x = @ + randJitter(d[1]), !.y = @ + randJitter(d[2])]]

jitterDraws(n, D) == [0 .. Min(JitterPins, n) - 1 -> D \X D]

\* One iteration of the extra-rope loop (lines 116-118) with the draws ri, ro.
chordPick(rs, conn, ri, ro, n) ==
  LET i == randIndex(ri, n)
      offset == randOffset(ro, n)
  IN  addRope(rs, conn, i, (i + offset) % n)

\* One iteration of the scramble loop (lines 124-131) with the draws ra, rb.
swapPick(pts, ra, rb, n) == swapPoints(pts, randIndex(ra, n), randIndex(rb, n))


(***************************************************************************)
(* doIntersect: the 2x2 solve for lambda (along a-b) and gamma (along      *)
(* c-d).  eps < num/det < 1 - eps is decided without dividing, by the      *)
(* sign of det.                                                            *)
(***************************************************************************)
\* eps < num/det < 1 - eps
insideEps(num, det) ==
  IF det > 0
    THEN EpsDen * num > EpsNum * det /\ EpsDen * num < (EpsDen - EpsNum) * det
    ELSE EpsDen * num < EpsNum * det /\ EpsDen * num > (EpsDen - EpsNum) * det

\* doIntersect with gamma tested against (eps, 1) only.
doIntersectGammaOneSided(a, b, c, d) ==
  LET det == (b.x - a.x) * (d.y - c.y) - (b.y - a.y) * (d.x - c.x)
      lambdaNum == (d.y - c.y) * (d.x - a.x) + (c.x - d.x) * (d.y - a.y)
      gammaNum == (a.y - b.y) * (d.x - a.x) + (b.x - a.x) * (d.y - a.y)
      gammaInside == IF det > 0
                       THEN EpsDen * gammaNum > EpsNum * det /\ gammaNum < det
                       ELSE EpsDen * gammaNum < EpsNum * det /\ gammaNum > det
  IN  IF Abs(det) < DetEps THEN FALSE
      ELSE insideEps(lambdaNum, det) /\ gammaInside

\* doIntersect with the sign of the second term of lambda flipped.
doIntersectSignSlip(a, b, c, d) ==
  LET det == (b.x - a.x) * (d.y - c.y) - (b.y - a.y) * (d.x - c.x)
      lambdaNum == (d.y - c.y) * (d.x - a.x) - (c.x - d.x) * (d.y - a.y)
      gammaNum == (a.y - b.y) * (d.x - a.x) + (b.x - a.x) * (d.y - a.y)
  IN  IF Abs(det) < DetEps THEN FALSE
      ELSE insideEps(lambdaNum, det) /\ insideEps(gammaNum, det)

\* Lines 234-242.
doIntersect(a, b, c, d) ==
  LET det == (b.x - a.x) * (d.y - c.y) - (b.y - a.y) * (d.x - c.x)
      lambdaNum == (d.y - c.y) * (d.x - a.x) + (c.x - d.x) * (d.y - a.y)
      gammaNum == (a.y - b.y) * (d.x - a.x) + (b.x - a.x) * (d.y - a.y)
  IN  IF Abs(det) < DetEps THEN FALSE
      ELSE insideEps(lambdaNum, det) /\ insideEps(gammaNum, det)

(***************************************************************************)
(* checkIntersections.  ps is state.pins (id -> position), rs is           *)
(* state.ropes in insertion order; the result is tangledIds.               *)
(***************************************************************************)
sharePin(r1, r2) ==
  r1.p1 = r2.p1 \/ r1.p1 = r2.p2 \/ r1.p2 = r2.p1 \/ r1.p2 = r2.p2

\* The inner loop body marking rs[i] and its successor instead of rs[j].
pairStepWrongIndex(ps, rs, i, j, acc) ==
  LET r1 == rs[i]
      r2 == rs[j]
  IN  IF sharePin(r1, r2) THEN acc
      ELSE IF ~ ({r1.p1, r1.p2, r2.p1, r2.p2} \subseteq DOMAIN ps) THEN acc
      ELSE IF doIntersect(ps[r1.p1], ps[r1.p2], ps[r2.p1], ps[r2.p2])
             THEN acc \cup {rs[i].id, rs[i + 1].id}
             ELSE acc

\* The body of the inner loop for the pair (i, j): tangledIds after it.
pairStep(ps, rs, i, j, acc) ==
  LET r1 == rs[i]
      r2 == rs[j]
  IN  IF sharePin(r1, r2) THEN acc
      ELSE IF ~ ({r1.p1, r1.p2, r2.p1, r2.p2} \subseteq DOMAIN ps) THEN acc
      ELSE IF doIntersect(ps[r1.p1], ps[r1.p2], ps[r2.p1], ps[r2.p2])
             THEN acc \cup {r1.id, r2.id}
             ELSE acc

\* The two nested loops, from the pair (i, j) on.
RECURSIVE pairLoop(_, _, _, _, _)
pairLoop(ps, rs, i, j, acc) ==
  IF i > Len(rs) THEN acc
  ELSE IF j > Len(rs) THEN pairLoop(ps, rs, i + 1, i + 2, acc)
  ELSE pairLoop(ps, rs, i, j + 1, pairStep(ps, rs, i, j, acc))

checkIntersections(ps, rs) == pairLoop(ps, rs, 1, 2, {})

(***************************************************************************)
(* generateLevel as a process.  pc is its position:                        *)
(*   "start"    entered, nothing built                                     *)
(*   "chords"   pins and ring built, cnt extra-rope iterations done        *)
(*   "scramble" cnt swaps done                                             *)
(*   "jitter"   swaps done, noise not yet added                            *)
(*   "done"     returned { points, ropes }                                 *)
(*   "idle"     not running                                                *)
(***************************************************************************)
Levels == ((0 - NegLevels) .. MaxLevel) \cup {FarLevel}
\* The draws explored for level l.
Draws(l) == IF l = FarLevel THEN ExtremeDraws ELSE RandDraws

afterChords(l) == IF scrambleCount(l) > 0 THEN "scramble" ELSE "jitter"
afterRing(l) == IF extraRopes(l) > 0 THEN "chords" ELSE afterChords(l)

SceneIdle ==
  /\ pins = << >>
  /\ sropes = << >>
  /\ tangled = {}
  /\ selectedPointId = NoPin
  /\ isComplete = FALSE
  /\ initialized = FALSE
  /\ scheduled = 0

InitGen ==
  /\ lvl \in Levels
  /\ points = << >>
  /\ ropes = << >>
  /\ connections = {}
  /\ pc = "start"
  /\ cnt = 0
  /\ SceneIdle

\* Lines 77-110: the parameters, the pins on the circle, the mandatory ring.
BuildRing ==
  /\ pc = "start"
  /\ LET n == pointCount(lvl)
         ring == addRing(<< >>, {}, 0, n)
     IN  /\ points' = createPoints(n)
         /\ ropes' = ring[1]
         /\ connections' = ring[2]
  /\ pc' = afterRing(lvl)
  /\ cnt' = 0
  /\ UNCHANGED << lvl, sceneVars >>

\* Lines 115-119: one iteration of the extra-rope loop.
AddChord ==
  /\ pc = "chords"
  /\ cnt < extraRopes(lvl)
  /\ \E ri \in Draws(lvl), ro \in Draws(lvl) :
       LET nx == chordPick(ropes, connections, ri, ro, pointCount(lvl))
       IN  /\ ropes' = nx[1]
           /\ connections' = nx[2]
  /\ cnt' = IF cnt + 1 < extraRopes(lvl) THEN cnt + 1 ELSE 0
  /\ pc' = IF cnt + 1 < extraRopes(lvl) THEN "chords" ELSE afterChords(lvl)
  /\ UNCHANGED << lvl, points, sceneVars >>

\* Lines 123-132: one iteration of the scramble loop.
ScrambleSwap ==
  /\ pc = "scramble"
  /\ cnt < scrambleCount(lvl)
  /\ \E ra \in Draws(lvl), rb \in Draws(lvl) :
       points' = swapPick(points, ra, rb, pointCount(lvl))
  /\ cnt' = IF cnt + 1 < scrambleCount(lvl) THEN cnt + 1 ELSE 0
  /\ pc' = IF cnt + 1 < scrambleCount(lvl) THEN "scramble" ELSE "jitter"
  /\ UNCHANGED << lvl, ropes, connections, sceneVars >>

\* Lines 135-140: the noise on every pin, and the return.
JitterAndReturn ==
  /\ pc = "jitter"
  /\ \E jd \in jitterDraws(pointCount(lvl), Draws(lvl)) :
       points' = jitterPoints(points, jd)
  /\ pc' = "done"
  /\ UNCHANGED << lvl, ropes, connections, cnt, sceneVars >>

NextGen == BuildRing \/ AddChord \/ ScrambleSwap \/ JitterAndReturn

SpecGen == InitGen /\ [][NextGen]_vars

(***************************************************************************)
(* Properties of generateLevel (checked under SpecGen).                    *)
(***************************************************************************)
\* The pins at their pre-scramble circle positions, as state.pins holds them.
circlePins(n) == [i \in 0 .. n - 1 |-> CirclePos(n, i)]

\* C1: for every levelIndex >= 1 the returned rope set has no tangled rope when
\* the pins sit at their circle positions, so that arrangement evaluates to
\* solved (at least one rope, none tangled).
C1_SolvedAtCirclePositions ==
  (pc = "done" /\ lvl >= 1) =>
     /\ checkIntersections(circlePins(pointCount(lvl)), ropes) = {}
     /\ Len(ropes) > 0

\* generateLevel has built the pins and the ring; "done" is its return.
built == pc \in {"chords", "scramble", "jitter", "done"}

\* C2: for every levelIndex >= 1 the LevelData is a well-formed graph from the
\* ring on at every step of generateLevel, and so when it is returned: point
\* ids pairwise different, every rope joins two different existing ids, and no
\* unordered pair of pins carries more than one rope.
C2_WellFormedGraph ==
  (built /\ lvl >= 1) =>
     /\ \A i, j \in DOMAIN points : i # j => points[i].id # points[j].id
     /\ \A k \in 1 .. Len(ropes) :
          /\ ropes[k].p1 # ropes[k].p2
          /\ \E i \in DOMAIN points : points[i].id = ropes[k].p1
          /\ \E i \in DOMAIN points : points[i].id = ropes[k].p2
     /\ \A k, m \in 1 .. Len(ropes) :
          k # m => {ropes[k].p1, ropes[k].p2} # {ropes[m].p1, ropes[m].p2}

\* A returned level in which addRope rejected a duplicate pick.
C2_Witness ==
  /\ pc = "done"
  /\ lvl >= 1
  /\ Len(ropes) < pointCount(lvl) + extraRopes(lvl)

\* C8: for every levelIndex L >= 1 the result has N = min(5 + floor(L/10), 15)
\* points and E ropes with N <= E <= floor(N * (1.2 + 0.8 L / 100)), all N ring
\* ropes among them; the counts are within these bounds from the ring on at
\* every step of generateLevel, and so when it returns.
C8_PointAndRopeCounts ==
  (built /\ lvl >= 1) =>
     LET n == IF 5 + (lvl \div 10) < 15 THEN 5 + (lvl \div 10) ELSE 15
     IN  /\ Cardinality(DOMAIN points) = n
         /\ n <= Len(ropes)
         /\ Len(ropes) <= (n * (1200 + 8 * lvl)) \div 1000
         /\ \A i \in 0 .. n - 1 :
              \E k \in 1 .. Len(ropes) :
                 {ropes[k].p1, ropes[k].p2} = {i, (i + 1) % n}

\* A returned level beyond the cap (15 pins) with rejected picks, and E between
\* its bounds.
C8_Witness ==
  /\ pc = "done"
  /\ lvl > 100
  /\ Cardinality(DOMAIN points) = 15
  /\ Len(ropes) = 15 + 4

\* C9: called with a level index that is zero or negative, the generator
\* returns no LevelData.
C9_RejectsInvalidLevel == (lvl <= 0) => (pc # "done")

\* Every circle position of n is held by exactly one pin.
isCirclePermutation(pts, n) ==
  \A c \in 0 .. n - 1 :
     Cardinality({i \in DOMAIN pts :
                    pts[i].x = CirclePos(n, c).x /\ pts[i].y = CirclePos(n, c).y}) = 1

\* C10: every scramble swap leaves the pins' (x, y) a permutation of the N circle
\* positions, and leaves every pin's id, z and color and the rope list unchanged.
C10_ScramblePermutesPositions ==
  [][pc = "scramble" =>
       /\ isCirclePermutation(points', pointCount(lvl))
       /\ DOMAIN points' = DOMAIN points
       /\ \A i \in DOMAIN points :
            /\ points'[i].id = points[i].id
            /\ points'[i].z = points[i].z
            /\ points'[i].color = points[i].color
       /\ ropes' = ropes]_vars

\* All swaps done, and pin 0 no longer sits on its own circle position.
C10_Witness ==
  /\ pc = "jitter"
  /\ << points[0].x, points[0].y >> # << CirclePos(pointCount(lvl), 0).x,
                                         CirclePos(pointCount(lvl), 0).y >>

(***************************************************************************)
(* The extra-rope loop on its own: generateLevel up to the first ChordMax   *)
(* iterations of lines 115-119, for one level of every pin count.          *)
(***************************************************************************)
ChordLevels == {10 * d + 1 : d \in 0 .. MaxDecade}

InitChord ==
  /\ lvl \in ChordLevels
  /\ points = << >>
  /\ ropes = << >>
  /\ connections = {}
  /\ pc = "start"
  /\ cnt = 0
  /\ SceneIdle

\* Lines 115-119: one of the first ChordMax iterations of the extra-rope loop.
ChordIteration ==
  /\ pc = "chords"
  /\ cnt < Min(extraRopes(lvl), ChordMax)
  /\ \E ri \in RandDraws, ro \in RandDraws :
       LET nx == chordPick(ropes, connections, ri, ro, pointCount(lvl))
       IN  /\ ropes' = nx[1]
           /\ connections' = nx[2]
  /\ cnt' = cnt + 1
  /\ UNCHANGED << lvl, points, pc, sceneVars >>

NextChord == BuildRing \/ ChordIteration

SpecChord == InitChord /\ [][NextChord]_vars

\* The offset o of the rope at index k of ropes: p2 = (p1 + o) mod N.
chordOffset(k) == (ropes[k].p2 - ropes[k].p1) % pointCount(lvl)

GenIdle ==
  /\ lvl = 0
  /\ points = << >>
  /\ ropes = << >>
  /\ connections = {}
  /\ pc = "idle"
  /\ cnt = 0

rope(k, i, j) == [id |-> k, p1 |-> i, p2 |-> j]

\* The two diagonals of p0 p1 p2 p3.
Diagonals == << rope(0, 0, 2), rope(1, 1, 3) >>
\* All six ropes on four pins: the ring, then the diagonals.
AllSix == << rope(0, 0, 1), rope(1, 1, 2), rope(2, 2, 3), rope(3, 3, 0),
             rope(4, 0, 2), rope(5, 1, 3) >>
HarnessRopes == {Diagonals, AllSix}

pos(px, py) == [x |-> px, y |-> py]

EvalPts == {pos(10 * Unit * i, 10 * Unit * j) : i, j \in 0 .. EvalMax}

SegStep == Unit \div 50
SegCoords == {k * SegStep : k \in 0 .. SegSmall} \cup {EpsDen * SegStep}
SegPts == {pos(cx, cy) : cx, cy \in SegCoords}

Scenario1 == (0 :> pos(0, 0)) @@ (1 :> pos(10 * Unit, 0))
             @@ (2 :> pos(10 * Unit, 10 * Unit)) @@ (3 :> pos(0, 10 * Unit))
Scenario2 == [Scenario1 EXCEPT ![2] = pos(20 * Unit, 20 * Unit)]
SegStart == [i \in 0 .. 3 |-> pos(0, 0)]

HarnessInit(start) ==
  /\ GenIdle
  /\ pins = start
  /\ sropes \in HarnessRopes
  /\ tangled = checkIntersections(pins, sropes)
  /\ selectedPointId = NoPin
  /\ isComplete = FALSE
  /\ initialized = TRUE
  /\ scheduled = 0

\* p0 stays at the origin: doIntersect reads only differences of coordinates.
MoveAndEvaluate(Pts) ==
  \E id \in 1 .. 3, nextPos \in Pts :
     /\ pins' = [pins EXCEPT ![id] = nextPos]
     /\ tangled' = checkIntersections(pins', sropes)
     /\ UNCHANGED << genVars, sropes, selectedPointId, isComplete, initialized,
                    scheduled >>

InitEval == HarnessInit(Scenario1)
NextEval == MoveAndEvaluate(EvalPts)
SpecEval == InitEval /\ [][NextEval]_vars

InitSeg == HarnessInit(SegStart)
NextSeg == MoveAndEvaluate(SegPts)
SpecSeg == InitSeg /\ [][NextSeg]_vars

\* checkWinCondition's test (line 288) on the colouring of the last evaluation.
solved == Len(sropes) > 0 /\ tangled = {}

\* C3 as stated: the square with its two diagonals evaluates to both ropes
\* tangled and unsolved; with point 2 moved to (20, 20) it evaluates to both
\* ropes clear and solved.
C3_ScenarioAsStated ==
  /\ (sropes = Diagonals /\ pins = Scenario1) => (tangled = {0, 1} /\ ~ solved)
  /\ (sropes = Diagonals /\ pins = Scenario2) => (tangled = {} /\ solved)

\* C3 amended: the square with its two diagonals evaluates to both ropes tangled
\* and unsolved, and so it still does with point 2 moved to (20, 20): the rope
\* (0,0)-(20,20) still crosses (10,0)-(0,10), at (5,5).
C3_ScenarioStillTangled ==
  /\ (sropes = Diagonals /\ pins = Scenario1) => (tangled = {0, 1} /\ ~ solved)
  /\ (sropes = Diagonals /\ pins = Scenario2) => (tangled = {0, 1} /\ ~ solved)

C3_Witness == sropes = Diagonals /\ pins = Scenario2

\* C4: a rope is marked tangled only if doIntersect is true for it and some rope
\* with which it shares no pin; ropes that share a pin never mark each other.
C4_TangledOnlyByDisjointRope ==
  \A id \in tangled :
     \E k, m \in 1 .. Len(sropes) :
        /\ sropes[k].id = id
        /\ ~ sharePin(sropes[k], sropes[m])
        /\ \/ doIntersect(pins[sropes[k].p1], pins[sropes[k].p2],
                          pins[sropes[m].p1], pins[sropes[m].p2])
           \/ doIntersect(pins[sropes[m].p1], pins[sropes[m].p2],
                          pins[sropes[k].p1], pins[sropes[k].p2])

\* Six ropes, the ring ropes p0-p1 and p2-p3 marked tangled by each other while
\* the ropes that share pins with them stay clear.
C4_Witness ==
  /\ sropes = AllSix
  /\ tangled = {0, 2}

RECURSIVE chordResults(_, _, _, _)
chordResults(S, k, n, D) ==
  IF k <= 0 THEN S
  ELSE chordResults({chordPick(rc[1], rc[2], ri, ro, n) : rc \in S, ri \in D, ro \in D},
                    k - 1, n, D)

RECURSIVE scrambleResults(_, _, _, _)
scrambleResults(S, k, n, D) ==
  IF k <= 0 THEN S
  ELSE scrambleResults({swapPick(pts, ra, rb, n) : pts \in S, ra \in D, rb \in D},
                       k - 1, n, D)

generateLevel(l, D, JD) ==
  LET n == pointCount(l)
      ring == addRing(<< >>, {}, 0, n)
      chords == chordResults({ring}, extraRopes(l), n, D)
      scrambled == scrambleResults({createPoints(n)}, scrambleCount(l), n, D)
  IN  {[points |-> jitterPoints(pts, jd), ropes |-> rc[1]] :
         pts \in scrambled, rc \in chords, jd \in jitterDraws(n, JD)}

(***************************************************************************)
(* One GameScene.  StartLevel is the effect of lines 143-368 for a level;  *)
(* it runs when the scene is mounted and when its level changes.  The      *)
(* pointer handlers exist once it has run.  The scene is explored for the  *)
(* levels generateLevel returns on the extreme draws 0 and (RandRes-1) /   *)
(* RandRes (jitter: draw 0), and for drags to the circle slots those draws *)
(* pick and to one point beyond the clamp.                                 *)
(* App changes the level of a mounted scene only from the win modal        *)
(* (nextLevel, lines 436-442), to level + 1; starting a level from the     *)
(* menu mounts a new scene.  onMove() counts moves for the HUD of App and  *)
(* is not part of the scene.                                               *)
(***************************************************************************)
PlayLevels == 1 .. MaxPlayLevel
PlayDraws == ExtremeDraws

clamp(v, lo, hi) == Max(lo, Min(hi, v))

DragTargets(n) ==
  {CirclePos(n, randIndex(r, n)) : r \in PlayDraws} \cup {pos(12 * Unit, 0)}

LevelData == [l \in PlayLevels |-> generateLevel(l, PlayDraws, {0})]

Init ==
  /\ GenIdle
  /\ SceneIdle

StartLevel(l) ==
  \E ld \in LevelData[l] :
     /\ \/ ~ initialized
        \/ isComplete /\ l = lvl + 1
     /\ lvl' = l
     /\ points' = ld.points
     /\ ropes' = ld.ropes
     /\ pins' = [i \in {ld.points[j].id : j \in DOMAIN ld.points} |->
                   pos(ld.points[i].x, ld.points[i].y)]
     /\ sropes' = [k \in 1 .. Len(ld.ropes) |->
                     rope(ld.ropes[k].id, ld.ropes[k].p1, ld.ropes[k].p2)]
     /\ initialized' = TRUE
     /\ isComplete' = FALSE
     /\ tangled' = checkIntersections(pins', sropes')
     /\ scheduled' = 0
     /\ UNCHANGED << connections, pc, cnt, selectedPointId >>

\* onPointerDown without the isComplete test of line 316.
OnPointerDownNoGuard ==
  /\ initialized
  /\ \E id \in DOMAIN pins : selectedPointId' = id
  /\ UNCHANGED << genVars, pins, sropes, tangled, isComplete, initialized, scheduled >>

\* Lines 315-333: the ray hits the pin id.
OnPointerDown ==
  /\ initialized
  /\ ~ isComplete
  /\ \E id \in DOMAIN pins : selectedPointId' = id
  /\ UNCHANGED << genVars, pins, sropes, tangled, isComplete, initialized, scheduled >>

\* The drag that also runs the win test of line 288 on its evaluation.
OnPointerMoveChecksWin ==
  /\ initialized
  /\ selectedPointId # NoPin
  /\ ~ isComplete
  /\ selectedPointId \in DOMAIN pins
  /\ \E raw \in DragTargets(Cardinality(DOMAIN pins)) :
       LET nextPos == pos(clamp(raw.x, 0 - 9 * Unit, 9 * Unit),
                          clamp(raw.y, 0 - 14 * Unit, 14 * Unit))
       IN  pins' = [pins EXCEPT ![selectedPointId] = nextPos]
  /\ tangled' = checkIntersections(pins', sropes)
  /\ isComplete' = (Len(sropes) > 0 /\ tangled' = {})
  /\ scheduled' = IF isComplete' THEN scheduled + 1 ELSE scheduled
  /\ UNCHANGED << genVars, sropes, selectedPointId, initialized >>

\* Lines 335-353: the pointer drags the selected pin to raw, clamped.
OnPointerMove ==
  /\ initialized
  /\ selectedPointId # NoPin
  /\ ~ isComplete
  /\ selectedPointId \in DOMAIN pins
  /\ \E raw \in DragTargets(Cardinality(DOMAIN pins)) :
       LET nextPos == pos(clamp(raw.x, 0 - 9 * Unit, 9 * Unit),
                          clamp(raw.y, 0 - 14 * Unit, 14 * Unit))
       IN  pins' = [pins EXCEPT ![selectedPointId] = nextPos]
  /\ tangled' = checkIntersections(pins', sropes)
  /\ UNCHANGED << genVars, sropes, selectedPointId, isComplete, initialized, scheduled >>

\* checkWinCondition without the test of line 288.
checkWinConditionNoTest ==
  IF ~ initialized \/ isComplete THEN << tangled, isComplete, scheduled >>
  ELSE << checkIntersections(pins, sropes), TRUE, scheduled + 1 >>

\* Lines 283-295: << tangled, isComplete, scheduled >> after checkWinCondition.
checkWinCondition ==
  IF ~ initialized \/ isComplete THEN << tangled, isComplete, scheduled >>
  ELSE LET tangledIds == checkIntersections(pins, sropes)
       IN  IF Len(sropes) > 0 /\ tangledIds = {}
             THEN << tangledIds, TRUE, scheduled + 1 >>
             ELSE << tangledIds, isComplete, scheduled >>

\* Lines 355-364.
OnPointerUp ==
  /\ initialized
  /\ selectedPointId # NoPin
  /\ selectedPointId' = NoPin
  /\ LET after == checkWinCondition
     IN  /\ tangled' = after[1]
         /\ isComplete' = after[2]
         /\ scheduled' = after[3]
  /\ UNCHANGED << genVars, pins, sropes, initialized >>

Next ==
  \/ \E l \in PlayLevels : StartLevel(l)
  \/ OnPointerDown
  \/ OnPointerMove
  \/ OnPointerUp

Spec == Init /\ [][Next]_vars

(***************************************************************************)
(* Properties of one level instance (checked under Spec).                  *)
(***************************************************************************)
\* C5 as stated: the instance is Solved as soon as any evaluation of the
\* current pin positions has yielded solved, the one at level start and those
\* during a drag included.  (Every evaluation recolours the ropes, and no pin
\* moves without one, so tangled is always the result of the latest.)
C5_SolvedAtAnyEvaluation ==
  (initialized /\ Len(sropes) > 0 /\ tangled = {}) => isComplete

\* C5 amended: isComplete becomes true only at a pointer-up that ends the drag
\* of a selected pin (the only step that clears a set selectedPointId) while at
\* least one rope exists and no rope is tangled, and every such pointer-up
\* makes it true; the evaluations at level start and during a drag leave
\* isComplete as it is.
C5_SolvedOnlyOnRelease ==
  [][LET release == selectedPointId # NoPin /\ selectedPointId' = NoPin
         solvedNow == Len(sropes) > 0 /\ checkIntersections(pins, sropes) = {}
     IN  /\ (~ isComplete /\ isComplete') => (release /\ pins' = pins /\ solvedNow)
         /\ (release /\ ~ isComplete /\ solvedNow) => isComplete']_vars

\* The first level instance has become Solved.
C5_Witness ==
  /\ isComplete
  /\ lvl = 1
  /\ scheduled = 1

\* C6: once isComplete is true, no pointer event moves a pin (none can even
\* select one) and isComplete stays true, until StartLevel creates a new
\* level instance.
C6_SolvedIsTerminal ==
  [][isComplete =>
       \/ /\ isComplete'
          /\ pins' = pins
          /\ selectedPointId' = NoPin
       \/ \E l \in PlayLevels : StartLevel(l)]_vars

\* A Solved instance was replaced by a new instance, which is Solved in turn.
C6_Witness ==
  /\ isComplete
  /\ lvl >= 2

\* C12: within one level instance onComplete is scheduled at most once (the
\* count of timers set never exceeds 1), and a timer is set only by a pointer-up
\* that ends the drag of a selected pin while at least one rope exists and no
\* rope is tangled.
C12_ScheduledOnceOnRelease ==
  [][/\ scheduled' <= 1
     /\ (scheduled' > scheduled) =>
          /\ selectedPointId # NoPin
          /\ selectedPointId' = NoPin
          /\ pins' = pins
          /\ Len(sropes) > 0
          /\ checkIntersections(pins, sropes) = {}]_vars

\* The second level instance has set its one timer, at the release of a drag
\* that left a pin off its generated position.
C12_Witness ==
  /\ lvl = 2
  /\ scheduled = 1
  /\ selectedPointId = NoPin
  /\ \E i \in DOMAIN pins : pins[i] # pos(points[i].x, points[i].y)

=============================================================================
